---- MODULE Spec2Model ----
(***************************************************************************)
(* The Streamable-HTTP front end of the FHL Bible MCP server               *)
(* (src/src/fhl_bible_mcp/http_server.py): the JSON-RPC dispatcher of      *)
(* FHLBibleHTTPServer and the POST endpoint mcp_post_endpoint.             *)
(*                                                                         *)
(* A POST is processed in the steps the coroutine takes: the body is       *)
(* parsed and classified, then the messages are processed one by one (each *)
(* process_jsonrpc_message is awaited), and the reply is built right after *)
(* the last one.  The tool handlers live outside this file; a handler call *)
(* either returns a result or raises an Exception.                         *)
(*                                                                         *)
(* JSON values are modelled by their type as far as the code looks at it:  *)
(* Python's None is the id 0 and the name "<None>", a JSON array in the    *)
(* place of a name is "<list>", and arguments are "{}" (absent), "{...}"   *)
(* (a JSON object) or "[...]" (any other JSON value).                      *)
(*                                                                         *)
(* The second part models the tool wrappers of                             *)
(* src/src/fhl_bible_mcp/http_tools.py: each call opens an upstream client,*)
(* awaits the upstream answer, and turns it into an envelope (ToolSpec).   *)
(* The third part binds the arguments of a tools/call to the parameters of *)
(* the registered handler, as the call in handle_tool_call does (BindSpec).*)
(***************************************************************************)
EXTENDS Integers, Sequences, FiniteSets, Bags, TLC

\* ------------------------------------------------------------------ bounds
\* The longest JSON array a POST body holds.
MaxBatch == 2
\* The most digits a Strong's number has.
MaxDigits == 4
\* The number of sessions the server may create in one run.
MaxSessions == 2

\* ------------------------------------------------------- program constants
PARSE_ERROR == -32700
METHOD_NOT_FOUND == -32601
INTERNAL_ERROR == -32603

\* ------------------------------------------------------------- JSON values
\* message.get("id") of a message without an id (or with "id": null)
NoId == 0
Ids == {NoId, 1, 2}

\* The names of _build_tools_list, in order.
ToolNames ==
    << "get_bible_verse", "get_bible_chapter", "query_verse_citation",
       "search_bible", "search_bible_advanced", "get_word_analysis",
       "lookup_strongs", "search_strongs_occurrences", "get_commentary",
       "list_commentaries", "get_topic_study", "list_bible_versions",
       "search_available_versions", "get_book_list", "get_book_info",
       "get_audio_bible", "list_audio_versions", "get_apocrypha_verse",
       "list_apocrypha_books", "get_apostolic_fathers_verse",
       "list_apostolic_fathers_books", "get_bible_footnote",
       "search_fhl_articles", "list_fhl_article_columns" >>

\* The keys of _build_tool_handlers.
HandlerNames ==
    { "get_bible_verse", "get_bible_chapter", "query_verse_citation",
      "search_bible", "search_bible_advanced", "get_word_analysis",
      "lookup_strongs", "search_strongs_occurrences", "get_commentary",
      "list_commentaries", "search_commentary", "get_topic_study",
      "list_bible_versions", "get_book_list", "get_book_info",
      "search_available_versions", "get_audio_bible", "list_audio_versions",
      "get_audio_chapter_with_text", "get_apocrypha_verse",
      "list_apocrypha_books", "get_apostolic_fathers_verse",
      "list_apostolic_fathers_books", "get_bible_footnote",
      "search_fhl_articles", "list_fhl_article_columns" }

_build_tools_list == ToolNames

_build_tool_handlers == [n \in HandlerNames |-> n]

\* params.get("name"): absent (None), a string, or an unhashable JSON value.
AbsentName == "<None>"
UnhashableName == "<list>"
Hashable(name) == name # UnhashableName

\* params.get("arguments", {}): absent gives {}, a JSON object is a mapping,
\* any other JSON value (null, array, string, number) is not.
EmptyArgs == "{}"
ObjectArgs == "{...}"
ArrayArgs == "[...]"
IsMapping(arguments) == arguments \in {EmptyArgs, ObjectArgs}

\* message.get("params", {}) that is a JSON object, and one that is not.
Params(name, arguments) == [dict |-> TRUE, name |-> name, arguments |-> arguments]
NonDictParams == [dict |-> FALSE, name |-> AbsentName, arguments |-> EmptyArgs]
NoParams == Params(AbsentName, EmptyArgs)

Message(id, method, params) ==
    [obj |-> TRUE, id |-> id, method |-> method, params |-> params]

\* A body or batch element that is valid JSON but no JSON object (5, "x", null).
NonObject == [obj |-> FALSE, id |-> NoId, method |-> "", params |-> NoParams]

PlainMethods ==
    { "initialize", "tools/list", "resources/list", "prompts/list",
      "notifications/initialized", "initialized", "bogus/method" }

CallParams ==
    { NonDictParams,
      Params(AbsentName, EmptyArgs),
      Params("no_such_tool", EmptyArgs),
      Params(UnhashableName, EmptyArgs),
      Params("get_bible_verse", ObjectArgs),
      Params("get_bible_verse", ArrayArgs),
      Params("search_commentary", ObjectArgs) }

\* The messages a POST may carry on its own.
SingleMessages ==
    { Message(id, m, NoParams) : id \in Ids, m \in PlainMethods }
        \cup { Message(id, "tools/call", p) : id \in Ids, p \in CallParams }
        \cup { NonObject }

\* The elements of a JSON array body.
BatchMessages ==
    { Message(id, m, NoParams) :
          id \in Ids,
          m \in {"initialize", "tools/list", "notifications/initialized", "bogus/method"} }
        \cup { Message(id, "tools/call", p) :
                   id \in Ids,
                   p \in {Params("get_bible_verse", ObjectArgs), Params("no_such_tool", EmptyArgs)} }
        \cup { NonObject }

\* request.json(): a JSONDecodeError, one JSON value, or a JSON array.
InvalidBody == [json |-> FALSE, array |-> FALSE, items |-> <<>>]
Bodies ==
    { InvalidBody }
        \cup { [json |-> TRUE, array |-> FALSE, items |-> <<m>>] : m \in SingleMessages }
        \cup { [json |-> TRUE, array |-> TRUE, items |-> s] :
                   s \in UNION { [1..n -> BatchMessages] : n \in 0..MaxBatch } }

\* The Accept header, as the set of media types it lists.
SSE == "text/event-stream"
Accepts == { {"application/json"}, {"application/json", SSE} }

\* What a tool handler does when it is called: it returns or it raises.
Outcomes == {"ok", "raise"}
HandlerError == "upstream request failed"

\* ------------------------------------------------------------------- state
VARIABLES
    tools,          \* self.tools
    tool_handlers,  \* self.tool_handlers
    sessions,       \* self.sessions
    pc,             \* where the POST in flight stands
    body,           \* the parsed request body
    accept,         \* the request's Accept header
    hdr,            \* the request's Mcp-Session-Id header (0: none)
    i,              \* the index of the next message
    responses,      \* the local list responses
    session_id,     \* the local session_id (0: None)
    reply,          \* the Response returned
    log,            \* per processed message: what process_jsonrpc_message did
    in_flight,      \* the wrapper calls awaiting their upstream answer (a bag)
    open_clients,   \* the number of FHLAPIEndpoints clients entered and not exited
    last_call,      \* the wrapper call that has completed, until its caller takes the result
    binding,        \* the handler(**arguments) call that was bound last
    book_tables,    \* the module globals APOCRYPHA_BOOKS and APOSTOLIC_FATHERS_BOOKS
    tool_call,      \* the Smithery tool function that was called last
    strongs         \* the Strong's identifier that was normalized last

server == <<tools, tool_handlers, sessions>>
request == <<body, accept, hdr>>
locals == <<i, responses, session_id>>
wrappers == <<in_flight, open_clients, last_call>>
http == <<tools, tool_handlers, sessions, pc, body, accept, hdr, i, responses,
          session_id, reply, log>>
calls == <<binding, tool_call, strongs>>
vars == <<tools, tool_handlers, sessions, pc, body, accept, hdr, i, responses,
          session_id, reply, log, in_flight, open_clients, last_call, binding,
          book_tables, tool_call, strongs>>


\* --------------------------------------------------------------- responses
Result(type, tool, arguments) == [type |-> type, tool |-> tool, arguments |-> arguments]
NoResult == Result("", "", "")
NoError == [code |-> 0, message |-> ""]

\* Python's None where a response dict is expected.
None == [id |-> -1, result |-> NoResult, error |-> NoError]

_create_jsonrpc_response(request_id, result) ==
    [id |-> request_id, result |-> result, error |-> NoError]

_create_jsonrpc_error(request_id, code, message) ==
    [id |-> request_id, result |-> NoResult,
     error |-> [code |-> code, message |-> message]]

IsError(resp) == resp # None /\ resp.error # NoError
IsResult(resp) == resp # None /\ resp.error = NoError

\* json.dumps(x): the serialized text of x.
json_dumps(x) == [json |-> x]

\* str(uuid.uuid4()): an identifier no session has yet.
uuid4 == Cardinality(DOMAIN sessions) + 1

\* What a dispatch step hands back: the response (or None), the new session
\* id (0: None), the session store it leaves, the number of times it called
\* a tool handler and what that call did.
Out(resp, session, store, invoked, outcome) ==
    [resp |-> resp, session |-> session, store |-> store,
     invoked |-> invoked, outcome |-> outcome, raised |-> ""]

\* A step that raised an exception with this text instead of returning.
Raise(text, invoked, outcome) ==
    [resp |-> None, session |-> 0, store |-> sessions,
     invoked |-> invoked, outcome |-> outcome, raised |-> text]

\* ------------------------------------------------------------- dispatcher
\* handle_initialize creating a session only for a request with an id.
handle_initialize_requests_only(request_id) ==
    IF request_id = NoId
    THEN Out(_create_jsonrpc_response(request_id, Result("initialize", "", "")),
             0, sessions, 0, "none")
    ELSE LET sid == uuid4
             store == [k \in DOMAIN sessions \cup {sid} |->
                           IF k = sid THEN [initialized |-> TRUE] ELSE sessions[k]]
         IN  Out(_create_jsonrpc_response(request_id, Result("initialize", "", "")),
                 sid, store, 0, "none")

\* handle_initialize storing every session under one identifier.
handle_initialize_same_id(request_id) ==
    LET sid == 1
        store == [k \in DOMAIN sessions \cup {sid} |-> [initialized |-> TRUE]]
    IN  Out(_create_jsonrpc_response(request_id, Result("initialize", "", "")),
            sid, store, 0, "none")

handle_initialize(request_id) ==
    LET sid == uuid4
        store == [k \in DOMAIN sessions \cup {sid} |->
                      IF k = sid THEN [initialized |-> TRUE] ELSE sessions[k]]
    IN  Out(_create_jsonrpc_response(request_id, Result("initialize", "", "")),
            sid, store, 0, "none")

\* handle_tools_list refusing to answer before a session exists.
handle_tools_list_after_initialize(request_id) ==
    IF DOMAIN sessions = {}
    THEN _create_jsonrpc_error(request_id, INTERNAL_ERROR, "not initialized")
    ELSE _create_jsonrpc_response(request_id, Result("tools", "", ""))

handle_tools_list(request_id) ==
    _create_jsonrpc_response(request_id, Result("tools", "", ""))

handle_resources_list(request_id) ==
    _create_jsonrpc_response(request_id, Result("resources", "", ""))

\* self.prompt_manager.list_prompts() lists the static prompt templates.
handle_prompts_list(request_id) ==
    _create_jsonrpc_response(request_id, Result("prompts", "", ""))

\* The try block of handle_tool_call; outcome is what the handler does if it
\* is called.
tool_call_try(request_id, params, outcome) ==
    IF ~params.dict
    THEN \* params.get raises AttributeError
         Raise("object has no attribute 'get'", 0, "none")
    ELSE LET tool_name == params.name
             arguments == params.arguments
         IN  IF ~Hashable(tool_name)
             THEN \* tool_name not in self.tool_handlers raises TypeError
                  Raise("unhashable type", 0, "none")
             ELSE IF tool_name \notin DOMAIN tool_handlers
             THEN Out(_create_jsonrpc_error(request_id, METHOD_NOT_FOUND,
                                            "Unknown tool: " \o tool_name),
                      0, sessions, 0, "none")
             ELSE IF ~IsMapping(arguments)
             THEN \* handler(**arguments) raises TypeError before the call
                  Raise("argument after ** must be a mapping", 0, "none")
             ELSE IF outcome = "ok"
             THEN Out(_create_jsonrpc_response(request_id,
                          Result("content", tool_handlers[tool_name], arguments)),
                      0, sessions, 1, "ok")
             ELSE Raise(HandlerError, 1, "raise")

\* handle_tool_call without its except clause.
handle_tool_call_uncaught(request_id, params, outcome) ==
    tool_call_try(request_id, params, outcome)

\* handle_tool_call calling the handler a second time after a failure.
handle_tool_call_retry(request_id, params, outcome) ==
    LET r == tool_call_try(request_id, params, outcome)
    IN  IF r.raised = "" THEN r
        ELSE Out(_create_jsonrpc_error(request_id, INTERNAL_ERROR, r.raised),
                 0, sessions, 2 * r.invoked, r.outcome)

\* try: ... except Exception as e: return the error -32603 with str(e)
handle_tool_call(request_id, params, outcome) ==
    LET r == tool_call_try(request_id, params, outcome)
    IN  IF r.raised = "" THEN r
        ELSE Out(_create_jsonrpc_error(request_id, INTERNAL_ERROR, r.raised),
                 0, sessions, r.invoked, r.outcome)

NotificationMethods == {"notifications/initialized", "initialized"}

process_jsonrpc_message(message, outcome) ==
    IF ~message.obj
    THEN \* message.get raises AttributeError
         Raise("object has no attribute 'get'", 0, "none")
    ELSE LET method == message.method
             request_id == message.id
             params == message.params
         IN  IF request_id = NoId /\ method \in NotificationMethods
             THEN Out(None, 0, sessions, 0, "none")
             ELSE IF method = "initialize"
             THEN handle_initialize(request_id)
             ELSE IF method = "tools/list"
             THEN Out(handle_tools_list(request_id), 0, sessions, 0, "none")
             ELSE IF method = "tools/call"
             THEN handle_tool_call(request_id, params, outcome)
             ELSE IF method = "resources/list"
             THEN Out(handle_resources_list(request_id), 0, sessions, 0, "none")
             ELSE IF method = "prompts/list"
             THEN Out(handle_prompts_list(request_id), 0, sessions, 0, "none")
             ELSE IF method \in NotificationMethods
             THEN Out(None, 0, sessions, 0, "none")
             ELSE Out(_create_jsonrpc_error(request_id, METHOD_NOT_FOUND,
                                            "Method not found: " \o method),
                      0, sessions, 0, "none")


\* ---------------------------------------------------------------- replies
Reply(status, media, shape, items, session) ==
    [status |-> status, media |-> media, shape |-> shape, items |-> items,
     session |-> session]

NoReply == Reply(0, "", "", <<>>, 0)

\* JSONResponse(content, status_code, headers); session is the Mcp-Session-Id
\* header (0: the header is not set).
JSONResponse(shape, items, status, session) ==
    Reply(status, "application/json", shape, items, session)

\* The notifications answered with an empty JSON array instead.
AcceptedAsJson == Reply(200, "application/json", "array", <<>>, 0)

\* Response(status_code=202)
Accepted == Reply(202, "", "empty", <<>>, 0)

format_sse_event(data, event_id) ==
    [id |-> IF event_id # "" THEN <<"id: " \o event_id>> ELSE <<>>,
     data |-> <<"data: ", json_dumps(data)>>]

\* generate_sse stopping after its first event.
generate_sse_first(resps) ==
    [k \in 1..1 |-> format_sse_event(resps[k], ToString(k - 1))]

generate_sse(resps) ==
    [k \in 1..Len(resps) |-> format_sse_event(resps[k], ToString(k - 1))]

\* all(msg.get("id") is None for msg in messages), from element k on: it
\* stops at the first message with an id, and raises on an element that is
\* no JSON object.
RECURSIVE all_notifications(_, _)
all_notifications(messages, k) ==
    IF k > Len(messages) THEN "True"
    ELSE IF ~messages[k].obj THEN "raise"
    ELSE IF messages[k].id # NoId THEN "False"
    ELSE all_notifications(messages, k + 1)

\* if response: responses.append(response)
collect(resps, response) ==
    IF response # None THEN Append(resps, response) ELSE resps

\* The first session id of a POST kept instead of the last.
keep_first_session(current, new_session_id) ==
    IF current # 0 THEN current ELSE new_session_id

\* if new_session_id: session_id = new_session_id
new_session(current, new_session_id) ==
    IF new_session_id # 0 THEN new_session_id ELSE current

\* The reply of a POST whose messages were all processed.
build_reply(resps, sid, supports_sse) ==
    IF supports_sse /\ Len(resps) > 0
    THEN Reply(200, SSE, "events", generate_sse(resps), sid)
    ELSE IF Len(resps) = 1
    THEN JSONResponse("object", <<resps[1]>>, 200, sid)
    ELSE JSONResponse("array", resps, 200, sid)

\* except json.JSONDecodeError / except Exception
parse_error ==
    JSONResponse("object", <<_create_jsonrpc_error(NoId, PARSE_ERROR, "Parse error")>>,
                 400, 0)
internal_error(text) ==
    JSONResponse("object", <<_create_jsonrpc_error(NoId, INTERNAL_ERROR, text)>>,
                 500, 0)

LogEntry(r) ==
    [ret |-> r.resp, invoked |-> r.invoked, outcome |-> r.outcome,
     session |-> r.session, raised |-> r.raised]

NumInitialize(items) ==
    Cardinality({k \in DOMAIN items : items[k].obj /\ items[k].method = "initialize"})

\* ------------------------------------------------------------- book tables
\* APOCRYPHA_BOOKS and APOSTOLIC_FATHERS_BOOKS map abbreviations to book
\* infos; the entries stand in the order the dict holds them.
Book(abbr, id, name_zh, name_en) ==
    [abbr |-> abbr, id |-> id, name_zh |-> name_zh, name_en |-> name_en]
APOCRYPHA_BOOKS ==
    << Book("jdt", 102, "Judith (zh)", "Judith"),
       Book("tob", 101, "Tobit (zh)", "Tobit"),
       Book("tobit", 101, "Tobit (zh)", "Tobit") >>
APOSTOLIC_FATHERS_BOOKS ==
    << Book("1clem", 201, "1 Clement (zh)", "1 Clement"),
       Book("did", 207, "Didache (zh)", "Didache"),
       Book("1cl", 201, "1 Clement (zh)", "1 Clement") >>

\* No wrapper call has completed yet; no call has been bound yet; no tool
\* function has been called yet; no identifier has been normalized yet.
NoCall == [handler |-> "", raised |-> "", envelope |-> [status |-> ""]]
NoBinding == [tool |-> "", keys |-> {}, passed |-> {}, received |-> {}, raised |-> ""]
NoToolCall == [tool |-> ""]
NoIdentifier == [testament |-> "", number |-> 0]
NoStrongs ==
    [number |-> [t |-> "", s |-> <<>>, n |-> 0], testament |-> "", raised |-> "",
     identifier |-> NoIdentifier]

\* ----------------------------------------------------------------- actions
Init ==
    /\ tools = _build_tools_list
    /\ tool_handlers = _build_tool_handlers
    /\ sessions = [k \in {} |-> [initialized |-> TRUE]]
    /\ pc = "idle"
    /\ body = InvalidBody
    /\ accept = {}
    /\ hdr = 0
    /\ i = 1
    /\ responses = <<>>
    /\ session_id = 0
    /\ reply = NoReply
    /\ log = <<>>
    /\ in_flight = EmptyBag
    /\ open_clients = 0
    /\ last_call = NoCall
    /\ binding = NoBinding
    /\ book_tables = [apocrypha |-> APOCRYPHA_BOOKS,
                      apostolic_fathers |-> APOSTOLIC_FATHERS_BOOKS]
    /\ tool_call = NoToolCall
    /\ strongs = NoStrongs

\* mcp_post_endpoint up to its first loop: the body is read, the batch is
\* classified, and a POST that needs no loop is answered.
ReceivePost(b, a, h) ==
    /\ pc = "idle"
    /\ Cardinality(DOMAIN sessions) + NumInitialize(b.items) <= MaxSessions
    /\ body' = b
    /\ accept' = a
    /\ hdr' = h
    /\ UNCHANGED <<server, locals, log, wrappers, book_tables, calls>>
    /\ IF ~b.json
       THEN pc' = "done" /\ reply' = parse_error
       ELSE LET all == all_notifications(b.items, 1)
            IN  IF all = "raise"
                THEN pc' = "done" /\ reply' = internal_error("object has no attribute 'get'")
                ELSE IF all = "True" /\ b.items = <<>>
                THEN pc' = "done" /\ reply' = Accepted
                ELSE IF all = "True"
                THEN pc' = "notify" /\ reply' = NoReply
                ELSE pc' = "collect" /\ reply' = NoReply

\* for msg in messages: await http_server.process_jsonrpc_message(msg)
\* and, after the last one, return Response(status_code=202)
ProcessNotification(outcome) ==
    /\ pc = "notify"
    /\ LET r == process_jsonrpc_message(body.items[i], outcome)
       IN  /\ sessions' = r.store
           /\ log' = Append(log, LogEntry(r))
           /\ IF r.raised # ""
              THEN pc' = "done" /\ reply' = internal_error(r.raised)
              ELSE IF i = Len(body.items)
              THEN pc' = "done" /\ reply' = Accepted
              ELSE pc' = "notify" /\ reply' = NoReply
    /\ i' = i + 1
    /\ UNCHANGED <<tools, tool_handlers, request, responses, session_id, wrappers, book_tables, calls>>

\* One turn of the collecting loop and, after the last one, the reply; an
\* exception leaves the loop for the handler at the end of the function.
ProcessRequest(outcome) ==
    /\ pc = "collect"
    /\ LET r == process_jsonrpc_message(body.items[i], outcome)
           resps == collect(responses, r.resp)
           sid == new_session(session_id, r.session)
       IN  /\ sessions' = r.store
           /\ log' = Append(log, LogEntry(r))
           /\ IF r.raised # ""
              THEN /\ pc' = "done"
                   /\ reply' = internal_error(r.raised)
                   /\ UNCHANGED <<responses, session_id>>
              ELSE /\ responses' = resps
                   /\ session_id' = sid
                   /\ IF i = Len(body.items)
                      THEN pc' = "done"
                           /\ reply' = build_reply(resps, sid, SSE \in accept)
                      ELSE pc' = "collect" /\ reply' = NoReply
    /\ i' = i + 1
    /\ UNCHANGED <<tools, tool_handlers, request, wrappers, book_tables, calls>>

\* The reply is sent and the request's locals are gone.
Close ==
    /\ pc = "done"
    /\ pc' = "idle"
    /\ body' = InvalidBody
    /\ accept' = {}
    /\ hdr' = 0
    /\ i' = 1
    /\ responses' = <<>>
    /\ session_id' = 0
    /\ reply' = NoReply
    /\ log' = <<>>
    /\ UNCHANGED <<server, wrappers, book_tables, calls>>

Next ==
    \/ pc = "idle" /\ \E b \in Bodies, a \in Accepts, h \in {0} \cup DOMAIN sessions :
                          ReceivePost(b, a, h)
    \/ pc = "notify" /\ \E outcome \in Outcomes : ProcessNotification(outcome)
    \/ pc = "collect" /\ \E outcome \in Outcomes : ProcessRequest(outcome)
    \/ Close

Spec == Init /\ [][Next]_vars


\* ------------------------------------------------------ reading the state
\* The messages of the POST in flight that have been processed so far.
Processed == 1..Len(log)
Msg(j) == body.items[j]

IsToolCall(m) == m.obj /\ m.method = "tools/call"
NamesRegisteredTool(m) ==
    IsToolCall(m) /\ m.params.dict /\ m.params.name \in DOMAIN tool_handlers
NamesNoRegisteredTool(m) ==
    IsToolCall(m) /\ m.params.dict /\ m.params.name \notin DOMAIN tool_handlers

KnownMethods ==
    {"initialize", "tools/list", "tools/call", "resources/list", "prompts/list"}
        \cup NotificationMethods

\* Every element of the body is a JSON object without an id.
OnlyNotifications ==
    body.json /\ \A k \in DOMAIN body.items : body.items[k].obj /\ body.items[k].id = NoId

\* The responses process_jsonrpc_message returned so far, in order.
RECURSIVE Returned(_)
Returned(n) ==
    IF n = 0 THEN <<>>
    ELSE IF log[n].ret # None THEN Append(Returned(n - 1), log[n].ret)
    ELSE Returned(n - 1)

\* The JSON-RPC responses the reply carries, in order.
ReplyResponses ==
    IF reply.shape = "events"
    THEN [k \in DOMAIN reply.items |-> reply.items[k].data[2].json]
    ELSE reply.items

\* The session created by the last initialize of this POST (0: none).
RECURSIVE LastCreated(_)
LastCreated(n) ==
    IF n = 0 THEN 0
    ELSE IF log[n].session # 0 THEN log[n].session
    ELSE LastCreated(n - 1)

\* ------------------------------------------------------------------ claims

\* C1 (as claimed): every tools/call whose params.name is no key of the
\* handler registry, an absent name included, is answered with error -32601
\* under the request's id, calls no handler and raises nothing.
C1_UnknownToolIsMethodNotFound ==
    \A j \in Processed :
        NamesNoRegisteredTool(Msg(j)) =>
            /\ log[j].raised = ""
            /\ log[j].invoked = 0
            /\ IsError(log[j].ret)
            /\ log[j].ret.error.code = METHOD_NOT_FOUND
            /\ log[j].ret.id = Msg(j).id

\* C2: a handler that raises is answered with error -32603 carrying the
\* exception's text under the request's id, nothing is raised to the
\* endpoint, the tool list and the registry stay as built, and the next
\* tools/call of a registered tool is dispatched to its handler.
C2_HandlerFailureIsInternalError ==
    /\ tools = _build_tools_list
    /\ tool_handlers = _build_tool_handlers
    /\ \A j \in Processed :
           log[j].outcome = "raise" =>
               /\ log[j].raised = ""
               /\ log[j].ret =
                      _create_jsonrpc_error(Msg(j).id, INTERNAL_ERROR, HandlerError)
               /\ \A k \in Processed :
                      (k > j /\ NamesRegisteredTool(Msg(k)) /\ IsMapping(Msg(k).params.arguments))
                          => /\ log[k].invoked = 1
                             /\ log[k].outcome = "ok" => IsResult(log[k].ret)
    /\ (pc = "done" /\ reply.status = 500) => \E k \in DOMAIN body.items : ~body.items[k].obj

\* C2 witness: a handler raised and a later tools/call in the same server
\* returned its result.
C2_Witness ==
    \E j \in Processed, k \in Processed :
        /\ j < k
        /\ log[j].outcome = "raise"
        /\ log[k].outcome = "ok"
        /\ IsResult(log[k].ret)

\* C3 (as claimed): every tools/call of a registered tool calls the tool's
\* handler exactly once.
C3_ExactlyOneInvocation ==
    \A j \in Processed : NamesRegisteredTool(Msg(j)) => log[j].invoked = 1

\* C3 (amended): a tools/call of a registered tool calls the handler exactly
\* once, with the supplied arguments, when arguments is absent or a JSON
\* object, and not at all when arguments is any other JSON value; a failed
\* call is not repeated, and no other message calls a handler.
C3_AtMostOneInvocation ==
    \A j \in Processed :
        /\ NamesRegisteredTool(Msg(j)) =>
               /\ log[j].invoked = IF IsMapping(Msg(j).params.arguments) THEN 1 ELSE 0
               /\ log[j].outcome = "ok" =>
                      log[j].ret.result =
                          Result("content", tool_handlers[Msg(j).params.name],
                                 Msg(j).params.arguments)
               /\ log[j].invoked = 0 => IsError(log[j].ret)
        /\ ~NamesRegisteredTool(Msg(j)) => log[j].invoked = 0

\* C3 witness: a handler was called, raised, and was not called again.
C3_Witness ==
    \E j \in Processed :
        NamesRegisteredTool(Msg(j)) /\ log[j].outcome = "raise" /\ log[j].invoked = 1

\* C4: a POST whose body holds only JSON-RPC messages without an id (one
\* message, or an array of them, the empty array included) is answered with
\* 202, an empty body and no JSON-RPC response.
C4_NotificationsAccepted ==
    (pc = "done" /\ OnlyNotifications) =>
        /\ reply.status = 202
        /\ reply.shape = "empty"
        /\ reply.items = <<>>
        /\ reply.media = ""
        /\ responses = <<>>

\* C4 witness: an array of two id-less messages, one of them a tools/list
\* that would have a result, has been answered.
C4_Witness ==
    /\ pc = "done"
    /\ OnlyNotifications
    /\ Len(body.items) = 2
    /\ \E j \in Processed : Msg(j).method = "tools/list" /\ log[j].ret # None

\* C5 (as claimed): in a batch that holds a request, the reply carries the
\* response of every element that has one, in the order of the elements,
\* whatever happens to the other elements.
C5_BatchElementsIndependent ==
    (/\ pc = "done"
     /\ body.json
     /\ body.array
     /\ \E k \in DOMAIN body.items : body.items[k].obj /\ body.items[k].id # NoId)
        => /\ Len(log) = Len(body.items)
           /\ ReplyResponses = Returned(Len(log))

\* C6 (as claimed): the session id an initialize creates is in the
\* Mcp-Session-Id header of that POST's reply, and the reply of every POST
\* made in a session carries that session's id in the header.
C6_SessionIdEchoed ==
    pc = "done" =>
        /\ \A j \in Processed : log[j].session # 0 => reply.session = log[j].session
        /\ hdr # 0 => reply.session = hdr

\* C6 (amended): the Mcp-Session-Id header of a reply is the id created by
\* the last initialize of that POST, provided the POST holds a message with
\* an id and all its messages were processed; every other reply, whatever
\* session the request names, carries no Mcp-Session-Id header.
C6_SessionIdReturnedOnce ==
    pc = "done" =>
        /\ reply.status = 200 => reply.session = LastCreated(Len(log))
        /\ reply.status # 200 => reply.session = 0
        /\ reply.session # 0 => reply.session \in DOMAIN sessions
        /\ (\A j \in Processed : Msg(j).method # "initialize") => reply.session = 0

\* C6 witness: a POST made in a session an earlier initialize created is
\* answered with a response and no Mcp-Session-Id header.
C6_Witness ==
    /\ pc = "done"
    /\ hdr # 0
    /\ reply.status = 200
    /\ Len(responses) > 0
    /\ reply.session = 0

\* C7 (as claimed): every message with a non-null id, whatever its method,
\* gets exactly one response, and the response carries the message's id.
C7_OneResponsePerRequest ==
    \A j \in Processed :
        (Msg(j).obj /\ Msg(j).id # NoId) =>
            /\ log[j].ret # None
            /\ log[j].ret.id = Msg(j).id

\* C8 (as claimed): a message without an id never has an entry among the
\* JSON-RPC responses of the reply, also in a batch that holds requests.
C8_NoResponseToNotification ==
    (pc = "done" /\ reply.status \in {200, 202}) =>
        \A k \in DOMAIN ReplyResponses : ReplyResponses[k].id # NoId

\* C9 (as claimed): every error has one of the three codes; -32700 with a
\* null id exactly for a body that is no JSON, -32601 exactly for an unknown
\* method or an unknown tool name, -32603 for every other failure.
C9_ErrorCodes ==
    /\ \A j \in Processed :
           ~OnlyNotifications =>
           LET m == Msg(j)
               unknown == m.obj /\ (m.method \notin KnownMethods \/ NamesNoRegisteredTool(m))
           IN  /\ unknown => IsError(log[j].ret) /\ log[j].ret.error.code = METHOD_NOT_FOUND
               /\ IsError(log[j].ret) =>
                      /\ log[j].ret.error.code \in {METHOD_NOT_FOUND, INTERNAL_ERROR}
                      /\ log[j].ret.error.code = METHOD_NOT_FOUND => unknown
    /\ pc = "done" =>
           /\ ~body.json <=> /\ reply.status = 400
                             /\ reply.items = <<_create_jsonrpc_error(NoId, PARSE_ERROR, "Parse error")>>
           /\ reply.status = 500 =>
                  /\ Len(reply.items) = 1
                  /\ reply.items[1].error.code = INTERNAL_ERROR

\* C10 (as claimed): with text/event-stream accepted and at least one
\* response produced, the reply is an event stream with one event per
\* response, in order, each carrying the serialized response; otherwise the
\* reply is a JSON body.
C10_StreamOrJson ==
    pc = "done" =>
        IF SSE \in accept /\ Len(responses) > 0
        THEN /\ reply.media = SSE
             /\ Len(reply.items) = Len(responses)
             /\ \A k \in DOMAIN reply.items :
                    reply.items[k].data = <<"data: ", json_dumps(responses[k])>>
        ELSE reply.media = "application/json"

\* C10 (amended): when all messages of a POST that holds a message with an
\* id were processed, text/event-stream is accepted and at least one
\* response was collected, the reply is an event stream with one event per
\* response, in order, numbered from 0, each carrying the serialized
\* response; a POST whose messages all lack an id gets an empty 202 reply;
\* every other reply, the error replies included, is a JSON body.
C10_StreamJsonOrEmpty ==
    pc = "done" =>
        LET completed == body.json /\ Len(log) = Len(body.items) /\ reply.status # 500
        IN  IF OnlyNotifications
            THEN reply.status = 202 /\ reply.media = "" /\ reply.shape = "empty"
            ELSE IF completed /\ SSE \in accept /\ Len(responses) > 0
            THEN /\ reply.status = 200
                 /\ reply.media = SSE
                 /\ Len(reply.items) = Len(responses)
                 /\ \A k \in DOMAIN reply.items :
                        reply.items[k] =
                            [id |-> <<"id: " \o ToString(k - 1)>>,
                             data |-> <<"data: ", json_dumps(responses[k])>>]
            ELSE /\ reply.media = "application/json"
                 /\ reply.shape \in {"object", "array"}
                 /\ completed => reply.items = responses

\* C10 witness: two responses were sent as two events.
C10_Witness ==
    /\ pc = "done"
    /\ SSE \in accept
    /\ Len(responses) = 2
    /\ reply.shape = "events"
    /\ responses[1] # responses[2]

\* The names tools/list answers with.
Advertised == {tools[k] : k \in DOMAIN tools}

\* A tools/call whose name and arguments pass every test before the registry
\* lookup and the call itself.
IsWellFormedCall(m) ==
    /\ IsToolCall(m)
    /\ m.params.dict
    /\ Hashable(m.params.name)
    /\ IsMapping(m.params.arguments)

\* C11 (as claimed): tools/list advertises 24 uniquely named tools, each of
\* them has a handler, and tools/call accepts exactly the advertised names:
\* a call of an advertised name reaches its handler, and a call of any other
\* name reaches no handler and is answered with error -32601.
C11_AdvertisedIsCallable ==
    /\ Len(tools) = 24
    /\ \A k, l \in DOMAIN tools : tools[k] = tools[l] => k = l
    /\ Advertised \subseteq DOMAIN tool_handlers
    /\ \A j \in Processed :
           IsWellFormedCall(Msg(j)) =>
               IF Msg(j).params.name \in Advertised
               THEN log[j].invoked = 1
               ELSE /\ log[j].invoked = 0
                    /\ IsError(log[j].ret)
                    /\ log[j].ret.error.code = METHOD_NOT_FOUND

\* ======================================================= the tool wrappers
\* The most wrapper calls in flight at once.
MaxCalls == 2
\* The longest "record" list an upstream answer carries.
MaxRecords == 2

\* C24 (as claimed): while a POST made only of id-less messages is processed,
\* no session is created and no tool handler is called.
C24_NotificationsChangeNothing ==
    OnlyNotifications =>
        \A j \in Processed : log[j].session = 0 /\ log[j].invoked = 0

\* C24 (amended): a POST made only of id-less messages gets no response and
\* no session header, but each of its messages is dispatched: an initialize
\* creates a session, a tools/call of a registered tool with mapping
\* arguments calls the handler once, and no other message does either; the
\* tool list and the registry stay as built.
C24_NotificationsAreDispatched ==
    OnlyNotifications =>
        /\ tools = _build_tools_list
        /\ tool_handlers = _build_tool_handlers
        /\ responses = <<>>
        /\ reply.session = 0
        /\ pc = "done" => reply = Accepted \/ reply.status = 500
        /\ \A j \in Processed :
               /\ log[j].session # 0 <=> Msg(j).method = "initialize"
               /\ log[j].session # 0 => log[j].session \in DOMAIN sessions
               /\ log[j].invoked =
                      IF NamesRegisteredTool(Msg(j)) /\ IsMapping(Msg(j).params.arguments)
                      THEN 1 ELSE 0

\* C24 witness: a batch of an id-less initialize and an id-less tools/call
\* was answered with 202 after a session was stored and the handler called.
C24_Witness ==
    /\ OnlyNotifications
    /\ pc = "done"
    /\ reply = Accepted
    /\ \E j \in Processed : log[j].session \in DOMAIN sessions
    /\ \E j \in Processed : log[j].invoked = 1

\* C25: the session store only grows: a step keeps every entry as it is,
\* the processing of an initialize message adds exactly one entry and no
\* other step adds any, and the identifier a reply carries in its
\* Mcp-Session-Id header is a key of the store.
C25_SessionStoreOnlyGrows ==
    [][ LET initialize == /\ pc \in {"notify", "collect"}
                          /\ body.items[i].obj
                          /\ body.items[i].method = "initialize"
        IN  /\ \A k \in DOMAIN sessions :
                   k \in DOMAIN sessions' /\ sessions'[k] = sessions[k]
            /\ Cardinality(DOMAIN sessions') =
                   Cardinality(DOMAIN sessions) + (IF initialize THEN 1 ELSE 0)
            /\ reply'.session # 0 => reply'.session \in DOMAIN sessions' ]_vars

\* C25 witness: a second session was created next to the first and its
\* identifier returned in the header.
C25_Witness ==
    /\ Cardinality(DOMAIN sessions) = 2
    /\ reply.session = 2
    /\ \A k \in DOMAIN sessions : sessions[k] = [initialized |-> TRUE]

\* C26: tools/list and tools/call are served the same way whatever the
\* session store holds and whatever Mcp-Session-Id header the request
\* carries: tools/list is answered with the tool list, and a tools/call
\* with what handle_tool_call makes of its params alone.
C26_NoSessionOrdering ==
    \A j \in Processed :
        LET m == Msg(j)
        IN  /\ m.obj /\ m.method = "tools/list" =>
                   /\ log[j].ret = _create_jsonrpc_response(m.id, Result("tools", "", ""))
                   /\ log[j].raised = ""
            /\ m.obj /\ m.method = "tools/call" =>
                   log[j] = LogEntry(handle_tool_call(m.id, m.params, log[j].outcome))

\* C26 witness: a tools/list and a tools/call were served although no
\* initialize was ever processed and the request names no session.
C26_Witness ==
    /\ DOMAIN sessions = {}
    /\ hdr = 0
    /\ \E j \in Processed : Msg(j).method = "tools/list" /\ IsResult(log[j].ret)
    /\ \E j \in Processed : log[j].invoked = 1 /\ IsResult(log[j].ret)

\* ------------------------------------------------- values of upstream JSON
\* A JSON scalar by its Python type: a str s, an int n, None, or the value a
\* dict does not hold (the key is missing).
JVal(t, s, n) == [t |-> t, s |-> s, n |-> n]
Missing == JVal("missing", "", 0)
JNull == JVal("null", "", 0)
JStr(s) == JVal("str", s, 0)
JInt(n) == JVal("int", "", n)
\* A str read as a text (the sequence of its characters), None, or missing.
JText(text) == JVal("str", text, 0)
MissingText == JVal("missing", <<>>, 0)
NullText == JVal("null", <<>>, 0)

\* A Python None passed as a keyword argument.
PyNone == "<None>"

\* d.get(key, default)
get(value, default) == IF value.t = "missing" THEN default ELSE value
\* value == "s" and value == n
eq_str(value, s) == value.t = "str" /\ value.s = s
eq_int(value, n) == value.t = "int" /\ value.n = n

\* A text as the sequence of its characters.
Rep(ch, n) == [k \in 1..n |-> ch]
Lower(ch) ==
    IF ch = "D" THEN "d" ELSE IF ch = "N" THEN "n" ELSE IF ch = "T" THEN "t" ELSE ch
\* str.lower()
lower(text) == [k \in DOMAIN text |-> Lower(text[k])]
\* needle in text
contains(needle, text) ==
    \E k \in 1..(Len(text) - Len(needle) + 1) :
        SubSeq(text, k, k + Len(needle) - 1) = needle

DataTooMuch == <<"D", "a", "t", "a", " ", "t", "o", "o", " ", "m", "u", "c", "h">>
data_too_much == lower(DataTooMuch)
NoDataText == <<"N", "o", " ", "d", "a", "t", "a">>
no_data == lower(NoDataText)
OtherText == <<"t", "i", "m", "e", "o", "u", "t">>
Ellipsis == <<".", ".", ".">>

\* The value of the key "record": missing, null, or a list of dicts.
NoRecordKey == [t |-> "missing", l |-> <<>>]
NullRecord == [t |-> "null", l |-> <<>>]
RecordList(l) == [t |-> "list", l |-> l]
Lists(S) == UNION { [1..n -> S] : n \in 0..MaxRecords }
RecordValues(S) == {NoRecordKey, NullRecord} \cup { RecordList(l) : l \in Lists(S) }

\* The value of the key "record_count".
CountValues == {Missing, JNull, JStr("1")} \cup { JInt(n) : n \in 0..MaxRecords }

\* What awaiting an upstream call gives: a JSON object, another JSON value,
\* or an exception (the request failed).
Response(status, record_count, record, error, result) ==
    [kind |-> "dict", status |-> status, record_count |-> record_count,
     record |-> record, error |-> error, result |-> result]
NotADict == [kind |-> "other"]
RequestFailed == [kind |-> "raise"]

\* The dicts of a "record" list.
VerseObj(bid, sec) ==
    [bid |-> bid, chap |-> JInt(1), sec |-> sec, bible_text |-> JStr("text"),
     chineses |-> JStr("Tobit")]
VerseRecords == { VerseObj(JStr("101"), JInt(1)), VerseObj(Missing, JInt(2)) }
\* The records of a search: a book of the table, no bid, a book outside it.
SearchRecords == VerseRecords \cup { VerseObj(JStr("150"), JInt(3)) }
FootnoteRecords ==
    { [id |-> JInt(7), text |-> JStr("or: the LORD")],
      [id |-> JInt(8), text |-> JStr("Hebrew unclear")] }
Article(id, content) ==
    [id |-> JInt(id), title |-> JStr("title"), author |-> JStr("author"),
     pubtime |-> JStr("2020.01.01"), column |-> JStr("women3"),
     abst |-> JStr("abstract"), content |-> content]

\* ------------------------------------------------------ article contents
\* The length of a content preview.
PREVIEW_LENGTH == 200

OpenB == <<"<", "b", ">">>
CloseB == <<"<", "/", "b", ">">>
\* PREVIEW_LENGTH - 1 letters, then the letters of tail
Letters(tail) == Rep("a", PREVIEW_LENGTH - 1) \o tail

\* Contents around the preview length, with and without markup, and short
\* contents: markup, "<>", a "<" that opens no tag, and the empty string.
LongContents ==
    { Letters(<<>>), Letters(<<"b">>), Letters(<<"b", "c">>),
      OpenB \o Letters(<<"b">>) \o CloseB,
      OpenB \o Letters(<<"b", "c">>) \o CloseB,
      Letters(<<"<", "b", "r", "/", ">", "c">>) }
OddContents ==
    { <<"a", "<", ">", "b">>, <<"x", "<", "y">>, <<"1", "<", "2", ">", "1">>, <<>> }
Paragraph == <<"<", "p", ">", "h", "i", "<", "/", "p", ">">>

ShortArticles == { Article(1, JText(Paragraph)), Article(2, MissingText) }
LongArticles == { Article(3, JText(c)) : c \in LongContents \cup OddContents }
ArticleLists == Lists(ShortArticles) \cup { <<a>> : a \in LongArticles }

\* re.sub(r'<[^>]+>', '', text) from index k on: the leftmost "<" that is
\* followed by at least one character other than ">" and then by ">" starts
\* a match, which ends at the first ">" after it; the scan goes on behind it.
RECURSIVE re_sub_from(_, _)
re_sub_from(text, k) ==
    LET opens == {j \in k..Len(text) : text[j] = "<"}
    IN  IF opens = {} THEN SubSeq(text, k, Len(text))
        ELSE LET p == CHOOSE j \in opens : \A o \in opens : j <= o
                 closes == {j \in (p + 1)..Len(text) : text[j] = ">"}
             IN  IF closes = {} THEN SubSeq(text, k, Len(text))
                 ELSE LET q == CHOOSE j \in closes : \A c \in closes : j <= c
                      IN  IF q = p + 1
                          THEN SubSeq(text, k, p) \o re_sub_from(text, p + 1)
                          ELSE SubSeq(text, k, p - 1) \o re_sub_from(text, q + 1)

re_sub(text) == re_sub_from(text, 1)

\* text[:n]
prefix(text, n) == SubSeq(text, 1, IF Len(text) < n THEN Len(text) ELSE n)

\* clean_text[:200] + "..." although clean_text is not longer than 200
content_preview_always_marked(full_content) ==
    LET clean_text == re_sub(full_content)
    IN  prefix(clean_text, PREVIEW_LENGTH) \o Ellipsis

\* clean_text[:200] + "..." if len(clean_text) > 200 else clean_text
content_preview(full_content) ==
    LET clean_text == re_sub(full_content)
    IN  IF Len(clean_text) > PREVIEW_LENGTH
        THEN prefix(clean_text, PREVIEW_LENGTH) \o Ellipsis
        ELSE clean_text

\* ------------------------------------------------------- table lookups
\* book_info["name_zh"] if book_info else book
display_name(books, book) ==
    IF \E k \in DOMAIN books : books[k].abbr = book
    THEN books[CHOOSE k \in DOMAIN books : books[k].abbr = book].name_zh
    ELSE book

\* int(value) of a str of digits or an int; -1 stands for a ValueError.
int(value) ==
    IF value.t = "int" THEN value.n
    ELSE IF \E n \in 0..300 : ToString(n) = value.s
    THEN CHOOSE n \in 0..300 : ToString(n) = value.s
    ELSE -1

\* bid_to_name.get(int(bid), default)
bid_to_name(books, id, default) ==
    IF \E k \in DOMAIN books : books[k].id = id
    THEN JStr(books[CHOOSE k \in DOMAIN books :
                        /\ books[k].id = id
                        /\ \A l \in DOMAIN books : books[l].id = id => l <= k].name_zh)
    ELSE default

\* bool(value) of a JSON scalar
truthy(value) ==
    \/ value.t = "str" /\ value.s # ""
    \/ value.t = "int" /\ value.n # 0

\* sorted(ids)
RECURSIVE sorted(_)
sorted(ids) ==
    IF ids = {} THEN <<>>
    ELSE LET least == CHOOSE x \in ids : \A y \in ids : x <= y
         IN  <<least>> \o sorted(ids \ {least})

\* -------------------------------------------------------------- envelopes
\* What a wrapper does with an upstream answer: it returns an envelope or it
\* raises an exception.
NoEnvelope == [status |-> ""]
Returns(envelope) == [raised |-> "", envelope |-> envelope]
Raises(exception) == [raised |-> exception, envelope |-> NoEnvelope]

UnknownError == JStr("unknown error")
NotFoundMessage == "no article matches"

\* An error envelope with a status of its own.
error_envelope_failed(result) ==
    Returns([status |-> "failed", error |-> get(result.error, UnknownError)])

\* return {"status": "error", "error": result.get("error", ...)}
error_envelope(result) ==
    Returns([status |-> "error", error |-> get(result.error, UnknownError)])

\* http_get_apocrypha_verse and http_get_apostolic_fathers_verse after the
\* upstream call.
get_verse(query_type, books, version, args, result) ==
    IF result.kind # "dict" THEN Raises("AttributeError")
    ELSE IF eq_str(result.status, "success")
    THEN LET record_count == get(result.record_count, JInt(0))
             records == result.record
             display == display_name(books, args.book)
             bid == IF records.t = "list" /\ records.l # <<>>
                    THEN get(records.l[1].bid, JStr("unknown"))
                    ELSE JStr("unknown")
         IN  IF records.t = "null"
             THEN \* for verse_obj in None
                  Raises("TypeError")
             ELSE Returns(
                      [status |-> "success",
                       query_type |-> query_type,
                       book |-> display,
                       book_id |-> bid,
                       chapter |-> args.chapter,
                       verse |-> args.verse,
                       version |-> version,
                       verse_count |-> record_count,
                       verses |->
                           [k \in DOMAIN records.l |->
                               [book |-> display,
                                book_id |-> get(records.l[k].bid, bid),
                                chapter |-> args.chapter,
                                verse |-> get(records.l[k].sec, JStr("")),
                                text |-> get(records.l[k].bible_text, JStr(""))]]])
    ELSE error_envelope(result)

http_get_apocrypha_verse(args, result) ==
    get_verse("apocrypha_verse", book_tables.apocrypha, "c1933", args, result)

http_get_apostolic_fathers_verse(args, result) ==
    get_verse("apostolic_fathers_verse", book_tables.apostolic_fathers, "af", args, result)

\* An entry of results that always carries the upstream's book name.
search_result_upstream_name(books, verse_obj) ==
    [book |-> get(verse_obj.chineses, JStr("")),
     book_id |-> get(verse_obj.bid, JStr("")),
     chapter |-> get(verse_obj.chap, JStr("")),
     verse |-> get(verse_obj.sec, JStr("")),
     text |-> get(verse_obj.bible_text, JStr(""))]

\* One entry of results in the search wrappers.
search_result(books, verse_obj) ==
    LET bid == get(verse_obj.bid, JStr(""))
    IN  [book |-> IF truthy(bid)
                  THEN bid_to_name(books, int(bid), get(verse_obj.chineses, JStr("")))
                  ELSE JStr(""),
         book_id |-> bid,
         chapter |-> get(verse_obj.chap, JStr("")),
         verse |-> get(verse_obj.sec, JStr("")),
         text |-> get(verse_obj.bible_text, JStr(""))]

\* http_search_apocrypha and http_search_apostolic_fathers after the
\* upstream call.
search(query_type, books, args, result) ==
    IF result.kind # "dict" THEN Raises("AttributeError")
    ELSE IF eq_str(result.status, "success")
    THEN LET record_count == get(result.record_count, JInt(0))
             records == result.record
         IN  IF records.t = "null"
             THEN Raises("TypeError")
             ELSE IF \E k \in DOMAIN records.l :
                         LET bid == get(records.l[k].bid, JStr(""))
                         IN  truthy(bid) /\ int(bid) = -1
             THEN Raises("ValueError")
             ELSE LET results == [k \in DOMAIN records.l |->
                                      search_result(books, records.l[k])]
                  IN  Returns(
                          [status |-> "success",
                           query_type |-> query_type,
                           keyword |-> args.query,
                           total_count |-> record_count,
                           returned_count |-> Len(results),
                           offset |-> args.offset,
                           results |-> results])
    ELSE error_envelope(result)

http_search_apocrypha(args, result) ==
    search("apocrypha_search", book_tables.apocrypha, args, result)

http_search_apostolic_fathers(args, result) ==
    search("apostolic_fathers_search", book_tables.apostolic_fathers, args, result)

\* info.copy() of the dict that entry k of the table holds, as the entry
\* whose dict the result is: the same dict instead of a copy.
copy_same_dict(k) == k

\* info.copy(): a dict of its own (0), none of the table's.
copy(k) == 0

\* The table after the grouping loop of the list wrappers: the loop stores
\* copy() of the first dict of each book id and writes the key "abbrs" into
\* what it stored.
books_after_list(books) ==
    [k \in DOMAIN books |->
        IF \E j \in DOMAIN books :
               /\ copy(j) = k
               /\ \A l \in DOMAIN books : books[l].id = books[j].id => j <= l
        THEN LET ks == sorted({l \in DOMAIN books : books[l].id = books[k].id})
             IN  books[k] @@ [abbrs |-> [n \in DOMAIN ks |-> books[ks[n]].abbr]]
        ELSE books[k]]

\* http_list_apocrypha_books and http_list_apostolic_fathers_books.
list_books(query_type, id_range, books) ==
    LET ids == sorted({books[k].id : k \in DOMAIN books})
        first(id) == CHOOSE k \in DOMAIN books :
                         /\ books[k].id = id
                         /\ \A l \in DOMAIN books : books[l].id = id => k <= l
        abbrs(id) == LET at == {k \in DOMAIN books : books[k].id = id}
                         ks == sorted(at)
                     IN  [n \in DOMAIN ks |-> books[ks[n]].abbr]
        books_list == [n \in DOMAIN ids |->
                          [id |-> ids[n],
                           name_zh |-> books[first(ids[n])].name_zh,
                           name_en |-> books[first(ids[n])].name_en,
                           abbreviations |-> abbrs(ids[n])]]
    IN  Returns([status |-> "success",
                 query_type |-> query_type,
                 id_range |-> id_range,
                 book_count |-> Len(books_list),
                 books |-> books_list])

http_list_apocrypha_books ==
    list_books("list_apocrypha_books", "101-115", book_tables.apocrypha)

http_list_apostolic_fathers_books ==
    list_books("list_apostolic_fathers_books", "201-217", book_tables.apostolic_fathers)

\* value > 0 is defined on numbers only; on None or a str it is a TypeError.
comparable(value) == value.t = "int"

\* http_get_bible_footnote that reads the record without looking at
\* record_count.
http_get_bible_footnote_first_record(args, result) ==
    IF result.kind # "dict" THEN Raises("AttributeError")
    ELSE IF eq_str(result.status, "success")
    THEN IF result.record.t = "list" /\ result.record.l # <<>>
         THEN Returns([status |-> "success",
                       query_type |-> "bible_footnote",
                       version |-> "TCV",
                       book_id |-> args.book_id,
                       footnote_id |-> get(result.record.l[1].id, JInt(args.footnote_id)),
                       text |-> get(result.record.l[1].text, JStr(""))])
         ELSE Returns([status |-> "not_found", message |-> "footnote not found"])
    ELSE error_envelope(result)

\* http_get_bible_footnote after the upstream call.
http_get_bible_footnote(args, result) ==
    IF result.kind # "dict" THEN Raises("AttributeError")
    ELSE IF eq_str(result.status, "success")
    THEN LET record_count == get(result.record_count, JInt(0))
         IN  IF ~comparable(record_count) THEN Raises("TypeError")
             ELSE IF record_count.n > 0
             THEN \* record = result["record"][0]
                  IF result.record.t = "missing" THEN Raises("KeyError")
                  ELSE IF result.record.t = "null" THEN Raises("TypeError")
                  ELSE IF result.record.l = <<>> THEN Raises("IndexError")
                  ELSE LET record == result.record.l[1]
                       IN  Returns(
                               [status |-> "success",
                                query_type |-> "bible_footnote",
                                version |-> "TCV",
                                book_id |-> args.book_id,
                                footnote_id |-> get(record.id, JInt(args.footnote_id)),
                                text |-> get(record.text, JStr(""))])
             ELSE Returns([status |-> "not_found", message |-> "footnote not found"])
    ELSE error_envelope(result)

\* One entry of formatted_articles.
formatted_article(article, include_content) ==
    LET full_content == get(article.content, JText(<<>>))
    IN  [id |-> get(article.id, JStr("")),
         title |-> get(article.title, JStr("")),
         author |-> get(article.author, JStr("")),
         pubtime |-> get(article.pubtime, JStr("")),
         column |-> get(article.column, JStr("")),
         abstract |-> get(article.abst, JStr("")),
         content |-> IF include_content THEN full_content ELSE MissingText,
         content_preview |->
             IF ~include_content /\ full_content.s # <<>>
             THEN JText(content_preview(full_content.s))
             ELSE MissingText]

no_results_envelope ==
    Returns([status |-> "no_results", query_type |-> "article_search",
             message |-> NotFoundMessage])

\* The branch of http_search_articles for an upstream status 0, matching
\* error_msg as it is.
status_zero_case_sensitive(result) ==
    LET error_msg == get(result.result, JText(<<"U", "n", "k", "n", "o", "w", "n">>))
    IN  IF error_msg.t # "str" THEN Raises("AttributeError")
        ELSE IF contains(data_too_much, error_msg.s)
        THEN Returns([status |-> "error",
                      error |-> JStr("too much data, give at least one search field"),
                      hint |-> "use title, author, content, abstract, column or pub_date"])
        ELSE IF contains(no_data, error_msg.s)
        THEN Returns([status |-> "no_results", message |-> NotFoundMessage])
        ELSE Returns([status |-> "error", error |-> error_msg])

\* The branch of http_search_articles for an upstream status 0.
status_zero(result) ==
    LET error_msg == get(result.result, JText(<<"U", "n", "k", "n", "o", "w", "n">>))
    IN  IF error_msg.t # "str" THEN Raises("AttributeError")
        ELSE IF contains(data_too_much, lower(error_msg.s))
        THEN Returns([status |-> "error",
                      error |-> JStr("too much data, give at least one search field"),
                      hint |-> "use title, author, content, abstract, column or pub_date"])
        ELSE IF contains(no_data, lower(error_msg.s))
        THEN Returns([status |-> "no_results", message |-> NotFoundMessage])
        ELSE Returns([status |-> "error", error |-> error_msg])

\* http_search_articles after the upstream call.
http_search_articles(args, result) ==
    IF result.kind # "dict" THEN Raises("AttributeError")
    ELSE IF eq_int(result.status, 1) /\ ~comparable(get(result.record_count, JInt(0)))
    THEN Raises("TypeError")
    ELSE IF eq_int(result.status, 1) /\ get(result.record_count, JInt(0)).n > 0
    THEN LET articles == result.record.l
         IN  IF articles = <<>>
             THEN \* if not articles: a missing key, None and [] alike
                  no_results_envelope
             ELSE LET formatted_articles ==
                          [k \in DOMAIN articles |->
                              formatted_article(articles[k], args.include_content)]
                  IN  Returns(
                          [status |-> "success",
                           query_type |-> "article_search",
                           total_count |-> result.record_count,
                           returned_count |-> Len(formatted_articles),
                           include_full_content |-> args.include_content,
                           articles |-> formatted_articles])
    ELSE IF eq_int(result.status, 0)
    THEN status_zero(result)
    ELSE no_results_envelope

\* http_list_article_columns after the client is released.
http_list_article_columns(columns) ==
    IF columns.kind # "list" THEN Raises("TypeError")
    ELSE Returns([status |-> "success",
                  query_type |-> "list_article_columns",
                  column_count |-> Len(columns.l),
                  columns |-> [k \in DOMAIN columns.l |->
                                  [code |-> columns.l[k].code,
                                   name |-> columns.l[k].name,
                                   description |-> columns.l[k].description]]])

\* ------------------------------------------------------- calls and answers
\* The wrappers that open an upstream client, and those that do not.
ClientHandlers ==
    { "http_get_apocrypha_verse", "http_search_apocrypha",
      "http_get_apostolic_fathers_verse", "http_search_apostolic_fathers",
      "http_get_bible_footnote", "http_search_articles",
      "http_list_article_columns" }
LocalHandlers == { "http_list_apocrypha_books", "http_list_apostolic_fathers_books" }

NoArgs == [none |-> TRUE]

\* The keyword arguments of a call, parameter defaults filled in.
Arguments(handler) ==
    CASE handler = "http_get_apocrypha_verse" ->
             { [book |-> "tob", chapter |-> 1, verse |-> v] : v \in {PyNone, "1"} }
      [] handler = "http_get_apostolic_fathers_verse" ->
             { [book |-> "didache", chapter |-> 1, verse |-> PyNone] }
      [] handler \in {"http_search_apocrypha", "http_search_apostolic_fathers"} ->
             { [query |-> "wisdom", limit |-> 10, offset |-> 0] }
      [] handler = "http_get_bible_footnote" ->
             { [book_id |-> b, footnote_id |-> 1, use_simplified |-> FALSE] :
                   b \in {0, 1, 66, 67} }
      [] handler = "http_search_articles" ->
             { [title |-> t, author |-> PyNone, content |-> PyNone,
                abstract |-> PyNone, column |-> PyNone, pub_date |-> PyNone,
                limit |-> 50, include_content |-> c, use_simplified |-> FALSE] :
                   t \in {PyNone, "grace"}, c \in BOOLEAN }
      [] OTHER -> { NoArgs }

\* The answers of the upstream that report a status: success with every
\* record_count and record, and a failure with and without an error text.
StatusResponses(records) ==
    { Response(JStr("success"), c, r, Missing, MissingText) :
          c \in CountValues, r \in RecordValues(records) }
        \cup { Response(st, Missing, NoRecordKey, e, MissingText) :
                   st \in {Missing, JStr("error"), JInt(0)},
                   e \in {Missing, JStr("book not found")} }

\* The answers of the article search: status 1 with every record_count and
\* record, status 0 with every result text, and other statuses.
ArticleResponses ==
    { Response(JInt(1), c, r, Missing, MissingText) :
          c \in CountValues,
          r \in {NoRecordKey, NullRecord} \cup { RecordList(l) : l \in ArticleLists } }
        \cup { Response(JInt(0), Missing, NoRecordKey, Missing, t) :
                   t \in { MissingText, NullText, JText(DataTooMuch),
                           JText(data_too_much), JText(NoDataText),
                           JText(OtherText) } }
        \cup { Response(st, Missing, NoRecordKey, Missing, MissingText) :
                   st \in {Missing, JStr("success")} }

Column(code) == [code |-> code, name |-> code, description |-> code]
ColumnLists == { [kind |-> "list", l |-> l] : l \in Lists({Column("women3"), Column("sunday")}) }

\* What the upstream call of a wrapper may give.
Upstream(handler) ==
    {RequestFailed, NotADict} \cup
    CASE handler \in {"http_get_apocrypha_verse", "http_get_apostolic_fathers_verse"} ->
             StatusResponses(VerseRecords)
      [] handler \in {"http_search_apocrypha", "http_search_apostolic_fathers"} ->
             StatusResponses(SearchRecords)
      [] handler = "http_get_bible_footnote" -> StatusResponses(FootnoteRecords)
      [] handler = "http_search_articles" -> ArticleResponses
      [] handler = "http_list_article_columns" -> ColumnLists

\* The wrappers refusing to build an envelope while another call is in flight.
normalize_one_at_a_time(handler, args, result) ==
    IF BagCardinality(in_flight) > 1 THEN Raises("RuntimeError")
    ELSE IF result.kind = "raise" THEN Raises("UpstreamError")
    ELSE CASE handler = "http_get_apocrypha_verse" -> http_get_apocrypha_verse(args, result)
           [] handler = "http_search_apocrypha" -> http_search_apocrypha(args, result)
           [] handler = "http_get_apostolic_fathers_verse" ->
                  http_get_apostolic_fathers_verse(args, result)
           [] handler = "http_search_apostolic_fathers" ->
                  http_search_apostolic_fathers(args, result)
           [] handler = "http_get_bible_footnote" -> http_get_bible_footnote(args, result)
           [] handler = "http_search_articles" -> http_search_articles(args, result)
           [] handler = "http_list_article_columns" -> http_list_article_columns(result)

\* The wrapper's code after its upstream call.
normalize(handler, args, result) ==
    IF result.kind = "raise" THEN Raises("UpstreamError")
    ELSE CASE handler = "http_get_apocrypha_verse" -> http_get_apocrypha_verse(args, result)
           [] handler = "http_search_apocrypha" -> http_search_apocrypha(args, result)
           [] handler = "http_get_apostolic_fathers_verse" ->
                  http_get_apostolic_fathers_verse(args, result)
           [] handler = "http_search_apostolic_fathers" ->
                  http_search_apostolic_fathers(args, result)
           [] handler = "http_get_bible_footnote" -> http_get_bible_footnote(args, result)
           [] handler = "http_search_articles" -> http_search_articles(args, result)
           [] handler = "http_list_article_columns" -> http_list_article_columns(result)

\* FHLAPIEndpoints.__aenter__ and __aexit__: the client is opened and closed.
aenter(clients) == clients + 1
aexit(clients) == clients - 1

\* async with that releases the client only when its block returns.
async_with_exit_on_return(clients, outcome) ==
    IF outcome.raised = "" THEN aexit(clients) ELSE clients

\* async with FHLAPIEndpoints() as api: the block is left, by a return or by
\* an exception, through __aexit__.
async_with_exit(clients, outcome) == aexit(clients)

Call(handler, args) == [handler |-> handler, args |-> args]
Completed(call, result, outcome) ==
    [handler |-> call.handler, args |-> call.args, result |-> result,
     raised |-> outcome.raised, envelope |-> outcome.envelope]

\* A wrapper is called: it enters its client and awaits the upstream call.
Invoke(handler, args) ==
    /\ last_call.handler = ""
    /\ BagCardinality(in_flight) < MaxCalls
    /\ in_flight' = in_flight (+) SetToBag({Call(handler, args)})
    /\ open_clients' = aenter(open_clients)
    /\ UNCHANGED <<last_call, http, book_tables, calls>>

\* The upstream call of a wrapper in flight ends: the wrapper builds its
\* envelope or raises, and leaves the async with block.
Complete(call, result) ==
    /\ last_call.handler = ""
    /\ BagIn(call, in_flight)
    /\ LET outcome == normalize(call.handler, call.args, result)
       IN  /\ last_call' = Completed(call, result, outcome)
           /\ open_clients' = async_with_exit(open_clients, outcome)
    /\ in_flight' = in_flight (-) SetToBag({call})
    /\ UNCHANGED <<http, book_tables, calls>>

\* A wrapper that makes no upstream call runs to its return.
CallLocal(handler) ==
    /\ last_call.handler = ""
    /\ last_call' = Completed(Call(handler, NoArgs), RequestFailed,
                              IF handler = "http_list_apocrypha_books"
                              THEN http_list_apocrypha_books
                              ELSE http_list_apostolic_fathers_books)
    /\ book_tables' =
           IF handler = "http_list_apocrypha_books"
           THEN [book_tables EXCEPT !.apocrypha = books_after_list(@)]
           ELSE [book_tables EXCEPT !.apostolic_fathers = books_after_list(@)]
    /\ UNCHANGED <<in_flight, open_clients, http, calls>>

\* The caller of the wrapper that completed takes its envelope or exception.
Return ==
    /\ last_call.handler # ""
    /\ last_call' = NoCall
    /\ UNCHANGED <<in_flight, open_clients, http, book_tables, calls>>

ToolNext ==
    \/ last_call.handler = "" /\ \E handler \in ClientHandlers :
           \E args \in Arguments(handler) : Invoke(handler, args)
    \/ last_call.handler = "" /\ \E call \in BagToSet(in_flight) :
           \E result \in Upstream(call.handler) : Complete(call, result)
    \/ \E handler \in LocalHandlers : CallLocal(handler)
    \/ Return

ToolSpec == Init /\ [][ToolNext]_vars

\* ----------------------------------------------- reading the wrapper state
\* A wrapper call has completed, by a return or through an exception.
HasCompleted == last_call.handler # ""
HasReturned == HasCompleted /\ last_call.raised = ""
\* The upstream call of the wrapper that completed gave an answer.
WasAnswered == HasCompleted /\ last_call.handler \in ClientHandlers
                   /\ last_call.result.kind # "raise"

SearchHandlers ==
    {"http_search_apocrypha", "http_search_apostolic_fathers", "http_search_articles"}

\* --------------------------------------------------------- wrapper claims

\* C13: every envelope a wrapper returns, whatever the upstream answered,
\* has a status that is one of success, error, not_found and no_results.
C13_StatusIsOneOfFour ==
    HasReturned =>
        last_call.envelope.status \in {"success", "error", "not_found", "no_results"}

\* C13 witness: a wrapper returned an error envelope for an upstream answer
\* without a status.
C13_Witness ==
    /\ HasReturned
    /\ last_call.handler = "http_get_apocrypha_verse"
    /\ last_call.result.status.t = "missing"
    /\ last_call.envelope.status = "error"

\* An upstream answer that is no JSON object, lacks its status, or reports
\* matches (status success or 1) without a usable record_count or record.
Malformed(result) ==
    \/ result.kind = "other"
    \/ /\ result.kind = "dict"
       /\ \/ result.status.t = "missing"
          \/ /\ eq_str(result.status, "success") \/ eq_int(result.status, 1)
             /\ \/ result.record_count.t # "int"
                \/ result.record.t # "list"
          \/ eq_int(result.status, 0) /\ result.result.t # "str"

\* C14 (as claimed): whatever the upstream answers, no wrapper raises, and
\* an answer that lacks an expected key or carries it with an unexpected
\* type gives an envelope with status error.
C14_MalformedAnswerIsError ==
    (WasAnswered /\ last_call.handler # "http_list_article_columns") =>
        /\ last_call.raised = ""
        /\ Malformed(last_call.result) => last_call.envelope.status = "error"

\* The upstream reports that nothing matched: its success status with a
\* record_count of 0 and an empty record list.
ZeroMatches(result) ==
    /\ result.kind = "dict"
    /\ eq_str(result.status, "success") \/ eq_int(result.status, 1)
    /\ eq_int(result.record_count, 0)
    /\ result.record = RecordList(<<>>)

\* C15 (as claimed): a search wrapper whose upstream reports zero matches
\* returns an envelope with status no_results.
C15_ZeroMatchesIsNoResults ==
    (WasAnswered /\ last_call.handler \in SearchHandlers
         /\ ZeroMatches(last_call.result)) =>
        /\ last_call.raised = ""
        /\ last_call.envelope.status = "no_results"

\* None of title, author, content, abstract, column and pub_date is set.
NoSearchField(args) ==
    /\ args.title = PyNone
    /\ args.author = PyNone
    /\ args.content = PyNone
    /\ args.abstract = PyNone
    /\ args.column = PyNone
    /\ args.pub_date = PyNone

HasHint(envelope) == "hint" \in DOMAIN envelope /\ envelope.hint # ""

C18_BadBookIdIsError ==
    (WasAnswered /\ last_call.handler = "http_get_bible_footnote"
         /\ last_call.args.book_id \notin 1..66) =>
        /\ last_call.raised = ""
        /\ last_call.envelope.status = "error"
        /\ last_call.envelope.error.t = "str"

\* No match of <[^>]+> is left in the text.
TagFree(text) ==
    ~ \E p, q \in DOMAIN text :
          /\ text[p] = "<"
          /\ text[q] = ">"
          /\ q >= p + 2
          /\ \A k \in (p + 1)..(q - 1) : text[k] # ">"

\* C19: with include_content false, the content_preview of an article that
\* has content is the content without its markup tags if that is at most
\* 200 characters long, and else its first 200 characters followed by the
\* ellipsis marker.
C19_PreviewTruncatesAt200 ==
    (HasReturned /\ last_call.handler = "http_search_articles"
         /\ last_call.envelope.status = "success"
         /\ ~last_call.args.include_content) =>
        \A k \in DOMAIN last_call.envelope.articles :
            LET content == get(last_call.result.record.l[k].content, JText(<<>>)).s
                preview == last_call.envelope.articles[k].content_preview
                clean == re_sub(content)
            IN  IF content = <<>> THEN preview.t = "missing"
                ELSE /\ preview.t = "str"
                     /\ TagFree(clean)
                     /\ TagFree(content) => clean = content
                     /\ content = OpenB \o Letters(<<"b">>) \o CloseB
                            => clean = Letters(<<"b">>)
                     /\ Len(clean) <= 200 => preview.s = clean
                     /\ Len(clean) > 200 =>
                            /\ Len(preview.s) = 203
                            /\ SubSeq(preview.s, 1, 200) = SubSeq(clean, 1, 200)
                            /\ SubSeq(preview.s, 201, 203) = Ellipsis

\* C19 witness: a text of exactly 200 characters inside markup came back
\* unchanged, and (in another call) a text of 201 characters came back cut.
C19_Witness ==
    /\ HasReturned
    /\ last_call.handler = "http_search_articles"
    /\ last_call.envelope.status = "success"
    /\ ~last_call.args.include_content
    /\ last_call.result.record.l[1].content = JText(OpenB \o Letters(<<"b">>) \o CloseB)
    /\ last_call.envelope.articles[1].content_preview = JText(Letters(<<"b">>))

\* C20: every client a wrapper opens is released when the wrapper returns or
\* raises: the open clients are never more than the calls in flight, and
\* none is open when no call is in flight.
C20_ClientsAreReleased ==
    /\ open_clients >= 0
    /\ open_clients <= BagCardinality(in_flight)
    /\ in_flight = EmptyBag => open_clients = 0

\* C20 witness: a wrapper raised while another call was in flight, and one
\* client is open.
C20_Witness ==
    /\ HasCompleted
    /\ last_call.raised # ""
    /\ BagCardinality(in_flight) = 1
    /\ open_clients = 1

\* The book tables as the modules define them.
StaticTables ==
    [apocrypha |-> APOCRYPHA_BOOKS, apostolic_fathers |-> APOSTOLIC_FATHERS_BOOKS]

SearchSucceeded ==
    /\ HasReturned
    /\ last_call.handler \in {"http_search_apocrypha", "http_search_apostolic_fathers"}
    /\ last_call.envelope.status = "success"
SearchTable ==
    IF last_call.handler = "http_search_apocrypha"
    THEN StaticTables.apocrypha
    ELSE StaticTables.apostolic_fathers
\* The id a record's bid names is an id of the table.
InTable(books, bid) ==
    truthy(bid) /\ \E k \in DOMAIN books : books[k].id = int(bid)
TableName(books, bid) ==
    JStr(books[CHOOSE k \in DOMAIN books : books[k].id = int(bid)].name_zh)
\* One result per record, in order, with the four fields re-keyed.
Rekeyed(records, results) ==
    /\ Len(results) = Len(records)
    /\ \A k \in DOMAIN records :
           /\ results[k].book_id = get(records[k].bid, JStr(""))
           /\ results[k].chapter = get(records[k].chap, JStr(""))
           /\ results[k].verse = get(records[k].sec, JStr(""))
           /\ results[k].text = get(records[k].bible_text, JStr(""))

\* C27 (as claimed): a search wrapper that returns success gives one result
\* per upstream record, in order, re-keyed, with the book name of the table
\* when the record's book id is in the table and the upstream's name
\* otherwise.
C27_BookNameFromTableOrUpstream ==
    SearchSucceeded =>
        LET records == last_call.result.record.l
            results == last_call.envelope.results
        IN  /\ Rekeyed(records, results)
            /\ \A k \in DOMAIN records :
                   results[k].book =
                       IF InTable(SearchTable, get(records[k].bid, JStr("")))
                       THEN TableName(SearchTable, records[k].bid)
                       ELSE get(records[k].chineses, JStr(""))

\* C27 (amended): as claimed, except that the upstream's name is used only
\* for a record with a bid that is not in the table; a record without a bid
\* (missing, empty or zero) gets an empty book name.
C27_BookNameEmptyWithoutBid ==
    SearchSucceeded =>
        LET records == last_call.result.record.l
            results == last_call.envelope.results
        IN  /\ Rekeyed(records, results)
            /\ \A k \in DOMAIN records :
                   LET bid == get(records[k].bid, JStr(""))
                   IN  results[k].book =
                           IF ~truthy(bid) THEN JStr("")
                           ELSE IF InTable(SearchTable, bid)
                           THEN TableName(SearchTable, bid)
                           ELSE get(records[k].chineses, JStr(""))

\* C27 witness: a search returned a record of a book of the table under the
\* table's name, followed by a record without a bid under an empty name.
C27_Witness ==
    /\ SearchSucceeded
    /\ Len(last_call.envelope.results) = 2
    /\ last_call.envelope.results[1].book_id = JStr("101")
    /\ last_call.envelope.results[1].book = JStr(APOCRYPHA_BOOKS[2].name_zh)
    /\ last_call.result.record.l[2].bid = Missing
    /\ last_call.envelope.results[2].book = JStr("")

\* C28 (as claimed): in a success envelope each count of returned items is
\* the length of the list next to it.
C28_CountsAreLengths ==
    HasReturned /\ last_call.envelope.status = "success" =>
        LET e == last_call.envelope
            h == last_call.handler
        IN  /\ h \in {"http_get_apocrypha_verse", "http_get_apostolic_fathers_verse"} =>
                   e.verse_count = JInt(Len(e.verses))
            /\ h \in {"http_search_apocrypha", "http_search_apostolic_fathers"} =>
                   e.returned_count = Len(e.results)
            /\ h = "http_search_articles" => e.returned_count = Len(e.articles)
            /\ h \in LocalHandlers => e.book_count = Len(e.books)
            /\ h = "http_list_article_columns" => e.column_count = Len(e.columns)

\* C30: a list wrapper returns one entry per book id of its table, in
\* strictly ascending id order, each with at least one abbreviation, every
\* abbreviation of the table in exactly one entry (that of its book), and
\* book_count the number of entries; and the tables are never changed.
C30_BooksListedOncePerId ==
    /\ book_tables = StaticTables
    /\ HasReturned /\ last_call.handler \in LocalHandlers =>
           LET table == IF last_call.handler = "http_list_apocrypha_books"
                        THEN StaticTables.apocrypha
                        ELSE StaticTables.apostolic_fathers
               books == last_call.envelope.books
               Holds(n, abbr) ==
                   \E a \in DOMAIN books[n].abbreviations :
                       books[n].abbreviations[a] = abbr
           IN  /\ { books[n].id : n \in DOMAIN books } = { table[k].id : k \in DOMAIN table }
               /\ \A n, m \in DOMAIN books : n < m => books[n].id < books[m].id
               /\ \A n \in DOMAIN books : Len(books[n].abbreviations) >= 1
               /\ \A k \in DOMAIN table :
                      \A n \in DOMAIN books : Holds(n, table[k].abbr) <=> books[n].id = table[k].id
               /\ \A n \in DOMAIN books :
                      \A a, b \in DOMAIN books[n].abbreviations :
                          /\ \E k \in DOMAIN table : table[k].abbr = books[n].abbreviations[a]
                          /\ books[n].abbreviations[a] = books[n].abbreviations[b] => a = b
               /\ last_call.envelope.book_count = Len(books)

\* C30 witness: the apocrypha were listed, the book with two abbreviations
\* first, although the table names another book first.
C30_Witness ==
    /\ HasReturned
    /\ last_call.handler = "http_list_apocrypha_books"
    /\ last_call.envelope.book_count = 2
    /\ Len(last_call.envelope.books[1].abbreviations) = 2
    /\ last_call.envelope.books[1].id < APOCRYPHA_BOOKS[1].id

\* ====================================================== argument binding
\* The inputSchema of a tool in _build_tools_list: the argument names it
\* declares and those it requires.
Schema(tool) ==
    CASE tool = "get_book_list" ->
             [properties |-> {"testament", "use_simplified"}, required |-> {}]
      [] tool = "get_book_info" ->
             [properties |-> {"book", "use_simplified"}, required |-> {"book"}]
      [] tool = "get_audio_bible" ->
             [properties |-> {"book", "chapter", "version"},
              required |-> {"book", "chapter"}]
      [] tool \in {"get_apocrypha_verse", "get_apostolic_fathers_verse"} ->
             [properties |-> {"book", "chapter", "verse"},
              required |-> {"book", "chapter"}]
      [] tool = "get_bible_footnote" ->
             [properties |-> {"book_id", "footnote_id", "use_simplified"},
              required |-> {"book_id", "footnote_id"}]
      [] tool = "search_fhl_articles" ->
             [properties |-> {"title", "author", "content", "column", "limit",
                              "include_content", "use_simplified"},
              required |-> {}]
      [] tool \in {"list_apocrypha_books", "list_apostolic_fathers_books",
                   "list_fhl_article_columns"} ->
             [properties |-> {}, required |-> {}]

\* The tools whose registered handler has its parameters stated in
\* http_tools.
BoundTools ==
    { "get_book_list", "get_book_info", "get_audio_bible", "get_apocrypha_verse",
      "list_apocrypha_books", "get_apostolic_fathers_verse",
      "list_apostolic_fathers_books", "get_bible_footnote", "search_fhl_articles",
      "list_fhl_article_columns" }

\* The parameters of the handler registered for a tool, and those without a
\* default: get_book_list(testament), get_book_info(book),
\* get_audio_bible(book, chapter, audio_version), and
\* handle_...(api_client, arguments) for the others.
Signature(tool) ==
    CASE tool = "get_book_list" -> [parameters |-> {"testament"}, required |-> {}]
      [] tool = "get_book_info" -> [parameters |-> {"book"}, required |-> {"book"}]
      [] tool = "get_audio_bible" ->
             [parameters |-> {"book", "chapter", "audio_version"},
              required |-> {"book", "chapter"}]
      [] OTHER ->
             [parameters |-> {"api_client", "arguments"},
              required |-> {"api_client", "arguments"}]

\* arguments = params.get("arguments", {}) and handler(**arguments): the
\* keywords of the call are the argument names the caller sent.
keyword_arguments(tool, arguments) == arguments

\* handler(**arguments): an unexpected keyword and a missing required
\* argument are TypeErrors raised before the handler's body runs.
bind_arguments(tool, keys) ==
    IF keys \subseteq Signature(tool).parameters
           /\ Signature(tool).required \subseteq keys
    THEN ""
    ELSE "TypeError"

\* A tools/call of a registered tool reaches result = await handler(**arguments)
\* with the argument names keys.
\* The parameters that hold a value when the handler's body starts: those
\* passed as keywords and those the signature gives a default, unless the
\* call raised.
parameters_bound(tool, keywords) ==
    IF bind_arguments(tool, keywords) = ""
    THEN keywords \cup (Signature(tool).parameters \ Signature(tool).required)
    ELSE {}

BindArguments(tool, keys) ==
    /\ binding' = [tool |-> tool, keys |-> keys,
                   passed |-> keyword_arguments(tool, keys),
                   received |-> parameters_bound(tool, keyword_arguments(tool, keys)),
                   raised |-> bind_arguments(tool, keyword_arguments(tool, keys))]
    /\ tool_call' = NoToolCall
    /\ UNCHANGED <<http, wrappers, book_tables, strongs>>

\* ------------------------------------------- the Smithery tool functions
\* The parameters of a tool function of create_server with their defaults
\* (values as Python prints them), and whether it declares ctx.
NoDefault == "<required>"
ToolFunctions ==
    { "get_bible_verse_tool", "get_book_list_tool", "lookup_strongs_tool",
      "get_audio_bible_tool", "list_audio_versions_tool" }
Parameters(tool) ==
    CASE tool = "get_bible_verse_tool" ->
             [defaults |-> [book |-> NoDefault, chapter |-> NoDefault,
                            verse |-> PyNone, version |-> "unv",
                            include_strong |-> "False", use_simplified |-> "False"],
              ctx |-> TRUE]
      [] tool = "get_book_list_tool" ->
             [defaults |-> [category |-> "bible", use_simplified |-> "False"],
              ctx |-> TRUE]
      [] tool = "lookup_strongs_tool" ->
             [defaults |-> [number |-> NoDefault, testament |-> PyNone,
                            use_simplified |-> "False"],
              ctx |-> TRUE]
      [] tool = "get_audio_bible_tool" ->
             [defaults |-> [book |-> NoDefault, chapter |-> NoDefault, version |-> "unv"],
              ctx |-> FALSE]
      [] tool = "list_audio_versions_tool" ->
             [defaults |-> [p \in {} |-> ""], ctx |-> FALSE]

Optional(tool) ==
    { p \in DOMAIN Parameters(tool).defaults : Parameters(tool).defaults[p] # NoDefault }

\* The arguments of a call: the required ones and any of the optional ones.
Supplied(tool) ==
    { [p \in (DOMAIN Parameters(tool).defaults \ Optional(tool)) \cup given |->
           IF p = "use_simplified" THEN flag ELSE "given"] :
          given \in SUBSET Optional(tool), flag \in {"True", "False"} }

\* The context of a call: None, or a Context that has no session_config
\* attribute, one that is None, or a configuration with or without a
\* use_simplified attribute.
Context(session_config, use_simplified) ==
    [ctx |-> "Context", session_config |-> session_config,
     use_simplified |-> use_simplified]
NoContext == [ctx |-> "None", session_config |-> "absent", use_simplified |-> "absent"]
Contexts ==
    { NoContext, Context("absent", "absent"), Context("None", "absent"),
      Context("config", "absent"), Context("config", "True"),
      Context("config", "False") }

\* The session configuration used only to switch Simplified Chinese on.
session_use_simplified_or(ctx, use_simplified) ==
    IF ctx.ctx # "None" /\ ctx.session_config = "config"
           /\ ctx.use_simplified = "True"
    THEN "True"
    ELSE use_simplified

\* if ctx and hasattr(ctx, 'session_config') and ctx.session_config:
\*     use_simplified = getattr(ctx.session_config, 'use_simplified', use_simplified)
session_use_simplified(ctx, use_simplified) ==
    IF ctx.ctx # "None" /\ ctx.session_config = "config"
    THEN IF ctx.use_simplified # "absent" THEN ctx.use_simplified ELSE use_simplified
    ELSE use_simplified

\* A tool function: its parameters are bound to the arguments and the
\* defaults, and the keywords of its handler call are returned.
tool_function(tool, supplied, ctx) ==
    LET defaults == Parameters(tool).defaults
        bound == [p \in DOMAIN defaults |->
                     IF p \in DOMAIN supplied THEN supplied[p] ELSE defaults[p]]
    IN  [p \in DOMAIN defaults |->
            IF p = "use_simplified" /\ Parameters(tool).ctx
            THEN session_use_simplified(ctx, bound[p])
            ELSE bound[p]]

\* A tool of the Smithery server is called.
CallTool(tool, supplied, ctx) ==
    /\ tool_call' = [tool |-> tool, supplied |-> supplied, ctx |-> ctx,
                     passed |-> tool_function(tool, supplied, ctx)]
    /\ binding' = NoBinding
    /\ UNCHANGED <<http, wrappers, book_tables, strongs>>

BindNext ==
    \/ \E tool \in BoundTools :
           \E keys \in SUBSET (Schema(tool).properties \cup Signature(tool).parameters) :
               BindArguments(tool, keys)
    \/ \E tool \in ToolFunctions :
           \E supplied \in Supplied(tool) : \E ctx \in Contexts :
               CallTool(tool, supplied, ctx)

BindSpec == Init /\ [][BindNext]_vars

\* The arguments of the call bound last conform to the tool's inputSchema.
ConformsToSchema ==
    /\ binding.tool \in DOMAIN tool_handlers
    /\ binding.tool \in Advertised
    /\ Schema(binding.tool).required \subseteq binding.keys
    /\ binding.keys \subseteq Schema(binding.tool).properties

\* C12 (as claimed): a tools/call whose arguments conform to the tool's
\* inputSchema is bound to the registered handler without a TypeError for
\* an unexpected or a missing keyword argument.
C12_SchemaArgumentsBind ==
    ConformsToSchema => binding.raised = ""

\* A tool function of the Smithery server has been called.
HasCalledTool == tool_call.tool # ""

\* C23: the handler holds a value for every argument its tool declares,
\* an omitted optional one by its default: for a schema-conforming
\* tools/call of the HTTP server every property of the tool's inputSchema
\* is a parameter with a value, and a Smithery tool function calls its
\* handler with the argument or the default of every parameter.
C23_DefaultsSupplied ==
    /\ ConformsToSchema => Schema(binding.tool).properties \subseteq binding.received
    /\ HasCalledTool =>
           LET defaults == Parameters(tool_call.tool).defaults
           IN  /\ DOMAIN tool_call.passed = DOMAIN defaults
               /\ \A p \in DOMAIN defaults \ {"use_simplified"} :
                      tool_call.passed[p] =
                          IF p \in DOMAIN tool_call.supplied
                          THEN tool_call.supplied[p]
                          ELSE defaults[p]

\* C29: a tool function that declares ctx passes the session
\* configuration's use_simplified to its handler whenever the call has a
\* session configuration with that value, whatever the caller passed, and
\* the caller's argument or the default otherwise; a tool function that
\* does not declare ctx passes what the arguments and the defaults give,
\* whatever the session configuration is.
C29_SessionConfigOverrides ==
    HasCalledTool =>
        LET tool == tool_call.tool
            ctx == tool_call.ctx
            defaults == Parameters(tool).defaults
            argument(p) == IF p \in DOMAIN tool_call.supplied
                           THEN tool_call.supplied[p]
                           ELSE defaults[p]
            configured == /\ ctx.ctx = "Context"
                          /\ ctx.session_config = "config"
                          /\ ctx.use_simplified # "absent"
        IN  /\ Parameters(tool).ctx /\ "use_simplified" \in DOMAIN defaults =>
                   tool_call.passed.use_simplified =
                       IF configured THEN ctx.use_simplified
                       ELSE argument("use_simplified")
            /\ ~Parameters(tool).ctx =>
                   \A p \in DOMAIN defaults : tool_call.passed[p] = argument(p)

\* C29 witness: get_bible_verse_tool was called with use_simplified True
\* in a session configured with False, and the handler got False.
C29_Witness ==
    /\ HasCalledTool
    /\ tool_call.tool = "get_bible_verse_tool"
    /\ "use_simplified" \in DOMAIN tool_call.supplied
    /\ tool_call.supplied.use_simplified = "True"
    /\ tool_call.ctx = Context("config", "False")
    /\ tool_call.passed.use_simplified = "False"

\* ================================================= Strong's identifiers
\* The Strong's identifier normalizer (the contract normalize(number,
\* testament?) of lookup_strongs and search_strongs_occurrences): number is an
\* int, a str of digits, or a str of G or H, in either case, and digits.
DigitChars == {"0", "3", "4", "5", "6"}
DigitStrings == UNION { [1..n -> DigitChars] : n \in 1..MaxDigits }
Prefixes == {"G", "g", "H", "h"}

\* int(digits)
RECURSIVE to_int(_)
to_int(digits) ==
    IF digits = <<>> THEN 0
    ELSE 10 * to_int(SubSeq(digits, 1, Len(digits) - 1))
             + (CHOOSE d \in 0..9 : ToString(d) = digits[Len(digits)])

AsInt(n) == [t |-> "int", s |-> <<>>, n |-> n]
AsStr(text) == [t |-> "str", s |-> text, n |-> 0]
StrongsNumbers ==
    { AsInt(to_int(d)) : d \in DigitStrings }
        \cup { AsStr(d) : d \in DigitStrings }
        \cup { AsStr(<<p>> \o d) : p \in Prefixes, d \in DigitStrings }
Testaments == {PyNone, "OT", "NT"}

\* The prefix of a number in upper case ("" when it has none), and its digits.
strongs_prefix(number) ==
    IF number.t = "str" /\ number.s[1] \in {"G", "g"} THEN "G"
    ELSE IF number.t = "str" /\ number.s[1] \in {"H", "h"} THEN "H"
    ELSE ""
strongs_value(number) ==
    IF number.t = "int" THEN number.n
    ELSE IF strongs_prefix(number) = "" THEN to_int(number.s)
    ELSE to_int(SubSeq(number.s, 2, Len(number.s)))

Identified(testament, number) ==
    [raised |-> "", identifier |-> [testament |-> testament, number |-> number]]
Fails(error) == [raised |-> error, identifier |-> NoIdentifier]

\* The normalizer taking only an upper-case letter for a prefix.
normalize_strongs_upper_case_only(number, testament) ==
    LET derived == IF number.t = "str" /\ number.s[1] = "G" THEN "NT"
                   ELSE IF number.t = "str" /\ number.s[1] = "H" THEN "OT"
                   ELSE ""
    IN  IF derived # ""
        THEN IF testament # PyNone /\ testament # derived
             THEN Fails("AmbiguousTestament")
             ELSE Identified(derived, strongs_value(number))
        ELSE IF testament = PyNone
        THEN Fails("MissingTestament")
        ELSE Identified(testament, strongs_value(number))

\* normalize(number, testament?)
normalize_strongs(number, testament) ==
    LET prefix_letter == strongs_prefix(number)
        derived == IF prefix_letter = "G" THEN "NT"
                   ELSE IF prefix_letter = "H" THEN "OT"
                   ELSE ""
    IN  IF derived # ""
        THEN IF testament # PyNone /\ testament # derived
             THEN Fails("AmbiguousTestament")
             ELSE Identified(derived, strongs_value(number))
        ELSE IF testament = PyNone
        THEN Fails("MissingTestament")
        ELSE Identified(testament, strongs_value(number))

\* A Strong's number and a testament are normalized.
Normalize(number, testament) ==
    /\ strongs = NoStrongs
    /\ strongs' = [number |-> number, testament |-> testament,
                   raised |-> normalize_strongs(number, testament).raised,
                   identifier |-> normalize_strongs(number, testament).identifier]
    /\ UNCHANGED <<http, wrappers, book_tables, binding, tool_call>>

\* The caller takes the identifier or the failure.
Identify ==
    /\ strongs # NoStrongs
    /\ strongs' = NoStrongs
    /\ UNCHANGED <<http, wrappers, book_tables, binding, tool_call>>

StrongsNext ==
    \/ strongs = NoStrongs /\ \E number \in StrongsNumbers :
           \E testament \in Testaments : Normalize(number, testament)
    \/ Identify

StrongsSpec == Init /\ [][StrongsNext]_vars

\* A number and a testament have been normalized.
HasNormalized == strongs.number.t # ""
G3056 == AsStr(<<"G", "3", "0", "5", "6">>)
H430 == AsStr(<<"H", "4", "3", "0">>)

\* C22: a G or H prefix, in either case, gives the testament NT or OT; a
\* testament argument that disagrees with the prefix fails with
\* AmbiguousTestament; neither a prefix nor a testament fails with
\* MissingTestament; every other input gives the testament and the number's
\* value: "G3056" gives (NT, 3056), (430, OT) gives (OT, 430), and
\* ("H430", NT) fails.
C22_StrongsNormalization ==
    HasNormalized =>
        LET number == strongs.number
            testament == strongs.testament
            letter == IF number.t = "str" THEN number.s[1] ELSE ""
            from_prefix == IF letter \in {"G", "g"} THEN "NT"
                           ELSE IF letter \in {"H", "h"} THEN "OT"
                           ELSE ""
            digits == IF number.t = "int" THEN <<>>
                      ELSE IF from_prefix = "" THEN number.s
                      ELSE Tail(number.s)
            value == IF number.t = "int" THEN number.n ELSE to_int(digits)
        IN  /\ from_prefix # "" /\ testament \in {PyNone, from_prefix} =>
                   /\ strongs.raised = ""
                   /\ strongs.identifier = [testament |-> from_prefix, number |-> value]
            /\ from_prefix # "" /\ testament \notin {PyNone, from_prefix} =>
                   strongs.raised = "AmbiguousTestament"
            /\ from_prefix = "" /\ testament = PyNone =>
                   strongs.raised = "MissingTestament"
            /\ from_prefix = "" /\ testament # PyNone =>
                   /\ strongs.raised = ""
                   /\ strongs.identifier = [testament |-> testament, number |-> value]
            /\ number = G3056 /\ testament = PyNone =>
                   strongs.identifier = [testament |-> "NT", number |-> 3056]
            /\ number = AsInt(430) /\ testament = "OT" =>
                   strongs.identifier = [testament |-> "OT", number |-> 430]
            /\ number = H430 /\ testament = "NT" => strongs.raised # ""

\* C22 witness: "g3056" without a testament was normalized to (NT, 3056).
C22_Witness ==
    /\ strongs.number = AsStr(<<"g", "3", "0", "5", "6">>)
    /\ strongs.testament = PyNone
    /\ strongs.raised = ""
    /\ strongs.identifier = [testament |-> "NT", number |-> 3056]

====
